---- MODULE Spec2Model ----
(***************************************************************************)
(* A model of src/main.py: class Maze3D (generate_maze, solve_maze) and    *)
(* the retry loop of main().  Coordinates are triples <<z, y, x>>, the     *)
(* grid is a function from the in-bounds coordinates to {Wall, Open}.      *)
(*                                                                         *)
(* Each loop iteration of the source is one action.  The variables named   *)
(* as in the source hold the program's state; the others (touched, entry,  *)
(* first, won, calls, rng, mode, pushed, pops, carved, writes, enq, deq)  *)
(* are history variables that only record what the program did.           *)
(***************************************************************************)
EXTENDS Integers, Sequences, FiniteSets, TLC

VARIABLES
    width, height, depth,   \* Maze3D.width, .height, .depth
    grid,                   \* Maze3D.grid: 1 = wall, 0 = path
    start, end,             \* Maze3D.start, Maze3D.end
    pc,                     \* the program's position
    stack, visited_cells,   \* generate_maze's locals
    extra_left,             \* iterations left of the range(...) loop of line 66
    queue, visited, parent, \* solve_maze's locals
    path,                   \* the value solve_maze returned
    attempt,                \* main's loop variable
    shown,                  \* what Maze3D.visualize was called with
    touched,                \* history: every coordinate used as an index or stored
    entry,                  \* history: the field as it was when solve_maze was entered
    first,                  \* history: the result of the first of two runs
    won,                    \* history: the successful attempts of main's loop
    calls,                  \* history: the number of solve_maze calls main has made
    rng, mode,              \* the random source: the draws made, and how draws are made
    pushed,                 \* history: how many times each cell was put on stack
    pops,                   \* history: the number of stack.pop() calls
    carved,                 \* history: the grid as it was after line 63
    writes,                 \* history: the number of writes of line 70
    enq,                    \* history: the cells put on queue, in order
    deq                     \* history: the number of queue.popleft() calls

vars == <<width, height, depth, grid, start, end, pc, stack, visited_cells,
          extra_left, queue, visited, parent, path, attempt, shown, touched,
          entry, first, won, calls, rng, mode, pushed, pops, carved, writes,
          enq, deq>>

dimVars  == <<width, height, depth, start, end>>
genVars  == <<stack, visited_cells, extra_left>>
bfsVars  == <<queue, visited, parent>>
mainVars == <<attempt, shown, won, calls>>
genHist  == <<pushed, pops, carved, writes>>
bfsHist  == <<enq, deq>>

-----------------------------------------------------------------------------
(* Bounds of the model and constants of the program.                       *)

\* The largest volume depth * height * width a generated field has.
MaxCells == 27

\* The largest volume of a field whose cells are assigned arbitrarily.
MaxGridCells == 10

\* The largest volume of a field main() is run on.
MaxMainCells == 27

\* The longest field of one row of cells (n x 1 x 1, 1 x n x 1, 1 x 1 x n) that
\* generate_maze is run on.
MaxLine == 120

\* The longest field of two rows of cells (1 x 2 x n) generate_maze is run on.
MaxSlab == 30

Open == 0
Wall == 1

max_attempts == 10

\* Python's None.
None == <<>>

-----------------------------------------------------------------------------
(* Maze3D.__init__ and coordinate arithmetic.                              *)

DimsUpTo(n) ==
    {d \in (1..n) \X (1..n) \X (1..n) : d[1] * d[2] * d[3] <= n}

Coords(d, h, w) == (0..(d - 1)) \X (0..(h - 1)) \X (0..(w - 1))

Cells == Coords(depth, height, width)

\* np.ones((depth, height, width), dtype=int)
AllWalls(d, h, w) == [c \in Coords(d, h, w) |-> Wall]

StartOf == <<0, 0, 0>>

EndOf(d, h, w) == <<d - 1, h - 1, w - 1>>

directions ==
    << <<0, -1, 0>>, <<0, 1, 0>>,
       <<0, 0, -1>>, <<0, 0, 1>>,
       <<-1, 0, 0>>, <<1, 0, 0>> >>

\* (z + dz * k, y + dy * k, x + dx * k)
Step(c, d, k) == <<c[1] + d[1] * k, c[2] + d[2] * k, c[3] + d[3] * k>>

\* 0 <= nz < self.depth and 0 <= ny < self.height and 0 <= nx < self.width
InBounds(c) ==
    /\ 0 <= c[1] /\ c[1] < depth
    /\ 0 <= c[2] /\ c[2] < height
    /\ 0 <= c[3] /\ c[3] < width

\* numpy's index normalisation along one axis of length n: a negative index
\* counts from the end, anything else outside 0..n-1 raises IndexError (-1).
AxisIndex(i, n) ==
    IF 0 <= i /\ i < n THEN i
    ELSE IF 0 - n <= i /\ i < 0 THEN i + n
    ELSE -1

Indexable(c) ==
    /\ AxisIndex(c[1], depth) >= 0
    /\ AxisIndex(c[2], height) >= 0
    /\ AxisIndex(c[3], width) >= 0

\* self.grid[c] = 0
GridOpen(g, c) ==
    IF Indexable(c)
    THEN [g EXCEPT ![<<AxisIndex(c[1], depth), AxisIndex(c[2], height),
                       AxisIndex(c[3], width)>>] = Open]
    ELSE g

-----------------------------------------------------------------------------
(* The random source.  A draw of the kind k ("choice" or "randint") is any  *)
(* member of the set drawn from; with mode "record" the draws are appended *)
(* to rng, with mode "replay" they are read back from it (the same seed     *)
(* gives the same draws).                                                  *)

Draws(k, S) ==
    IF mode = "replay"
    THEN IF rng # <<>> /\ Head(rng).kind = k
         THEN {v \in S : v = Head(rng).v}
         ELSE {}
    ELSE S

Consume(k, v) ==
    rng' = IF mode = "replay" THEN Tail(rng)
           ELSE IF mode = "record" THEN Append(rng, [kind |-> k, v |-> v])
           ELSE rng

-----------------------------------------------------------------------------
(* Maze3D.generate_maze                                                    *)

\* Lines 28-30.
GenStart ==
    /\ pc = "generate"
    /\ stack' = <<start>>
    /\ grid' = GridOpen(grid, start)
    /\ visited_cells' = {start}
    /\ touched' = {start}
    /\ pc' = IF Indexable(start) THEN "carve" ELSE "IndexError"
    /\ pushed' = (start :> 1)
    /\ pops' = 0
    /\ carved' = None
    /\ writes' = 0
    /\ UNCHANGED <<bfsHist, dimVars, extra_left, bfsVars, path, mainVars, entry, first,
                   rng, mode>>

\* Neighbors with the candidates one step away, not two.
NeighborsUnit(c, seen) ==
    LET all == [i \in 1..Len(directions) |->
                    <<Step(c, directions[i], 1), directions[i]>>]
        Ok(n) == InBounds(n[1]) /\ n[1] \notin seen
    IN  SelectSeq(all, Ok)

\* Neighbors with the bounds test one short: 0 <= n < dimension - 1.
NeighborsShort(c, seen) ==
    LET all == [i \in 1..Len(directions) |->
                    <<Step(c, directions[i], 2), directions[i]>>]
        Ok(n) == /\ InBounds(n[1])
                 /\ n[1][1] < depth - 1 /\ n[1][2] < height - 1
                 /\ n[1][3] < width - 1
                 /\ n[1] \notin seen
    IN  SelectSeq(all, Ok)

\* Lines 40-49: the list neighbors, as pairs <<candidate, direction>>.
Neighbors(c, seen) ==
    LET all == [i \in 1..Len(directions) |->
                    <<Step(c, directions[i], 2), directions[i]>>]
        Ok(n) == InBounds(n[1]) /\ n[1] \notin seen
    IN  SelectSeq(all, Ok)

\* CarveStep choosing with a random source of its own, not the seeded one.
CarveStepUnseeded ==
    /\ pc = "carve"
    /\ stack # <<>>
    /\ LET top == stack[Len(stack)]
           neighbors == Neighbors(top, visited_cells)
       IN  /\ neighbors # <<>>
           /\ \E i \in 1..Len(neighbors) :
                LET n == neighbors[i][1]
                    wall == Step(top, neighbors[i][2], 1)
                IN  /\ grid' = GridOpen(GridOpen(grid, wall), n)
                    /\ visited_cells' = visited_cells \cup {n}
                    /\ stack' = Append(stack, n)
                    /\ touched' = touched \cup {wall, n}
                    /\ pc' = IF Indexable(wall) /\ Indexable(n)
                             THEN "carve" ELSE "IndexError"
    /\ pushed' = LET n == stack'[Len(stack')]
                  IN  (n :> (IF n \in DOMAIN pushed THEN pushed[n] + 1 ELSE 1))
                          @@ pushed
    /\ UNCHANGED <<pops, carved, writes, bfsHist, dimVars, extra_left, bfsVars, path, mainVars, entry, first,
                   rng, mode>>

\* CarveStep without line 56, visited_cells.add.
CarveStepNoMark ==
    /\ pc = "carve"
    /\ stack # <<>>
    /\ LET top == stack[Len(stack)]
           neighbors == Neighbors(top, visited_cells)
       IN  /\ neighbors # <<>>
           /\ \E i \in Draws("choice", 1..Len(neighbors)) :
                LET n == neighbors[i][1]
                    wall == Step(top, neighbors[i][2], 1)
                IN  /\ grid' = GridOpen(GridOpen(grid, wall), n)
                    /\ visited_cells' = visited_cells
                    /\ stack' = Append(stack, n)
                    /\ touched' = touched \cup {wall, n}
                    /\ pc' = IF Indexable(wall) /\ Indexable(n)
                             THEN "carve" ELSE "IndexError"
                    /\ Consume("choice", i)
    /\ pushed' = LET n == stack'[Len(stack')]
                  IN  (n :> (IF n \in DOMAIN pushed THEN pushed[n] + 1 ELSE 1))
                          @@ pushed
    /\ UNCHANGED <<pops, carved, writes, bfsHist, dimVars, extra_left, bfsVars, path, mainVars, entry, first,
                   mode>>

\* Lines 38-57, the branch "if neighbors".
CarveStep ==
    /\ pc = "carve"
    /\ stack # <<>>
    /\ LET top == stack[Len(stack)]
           neighbors == Neighbors(top, visited_cells)
       IN  /\ neighbors # <<>>
           /\ \E i \in Draws("choice", 1..Len(neighbors)) :
                LET n == neighbors[i][1]
                    wall == Step(top, neighbors[i][2], 1)
                IN  /\ grid' = GridOpen(GridOpen(grid, wall), n)
                    /\ visited_cells' = visited_cells \cup {n}
                    /\ stack' = Append(stack, n)
                    /\ touched' = touched \cup {wall, n}
                    /\ pc' = IF Indexable(wall) /\ Indexable(n)
                             THEN "carve" ELSE "IndexError"
                    /\ Consume("choice", i)
    /\ pushed' = LET n == stack'[Len(stack')]
                  IN  (n :> (IF n \in DOMAIN pushed THEN pushed[n] + 1 ELSE 1))
                          @@ pushed
    /\ UNCHANGED <<pops, carved, writes, bfsHist, dimVars, extra_left, bfsVars, path, mainVars, entry, first,
                   mode>>

\* Backtrack with stack.pop(0): the bottom entry is removed, not the top.
BacktrackPopFirst ==
    /\ pc = "carve"
    /\ stack # <<>>
    /\ Neighbors(stack[Len(stack)], visited_cells) = <<>>
    /\ stack' = Tail(stack)
    /\ pops' = pops + 1
    /\ UNCHANGED <<pushed, carved, writes, bfsHist, dimVars, grid, pc, visited_cells, extra_left, bfsVars, path,
                   mainVars, touched, entry, first, rng, mode>>

\* Lines 38-51 and 58-59, the branch "else".
Backtrack ==
    /\ pc = "carve"
    /\ stack # <<>>
    /\ Neighbors(stack[Len(stack)], visited_cells) = <<>>
    /\ stack' = SubSeq(stack, 1, Len(stack) - 1)
    /\ pops' = pops + 1
    /\ UNCHANGED <<pushed, carved, writes, bfsHist, dimVars, grid, pc, visited_cells, extra_left, bfsVars, path,
                   mainVars, touched, entry, first, rng, mode>>

\* ExtraCount with max where the source has min.
ExtraCountMax ==
    LET n == (width * height * depth) \div 20
    IN  IF n > 5 THEN n ELSE 5

\* min(5, (self.width * self.height * self.depth) // 20)
ExtraCount ==
    LET n == (width * height * depth) \div 20
    IN  IF n < 5 THEN n ELSE 5

\* ForceOpen without line 63.
ForceOpenStartOnly ==
    /\ pc = "carve"
    /\ stack = <<>>
    /\ grid' = GridOpen(grid, start)
    /\ touched' = touched \cup {start}
    /\ extra_left' = ExtraCount
    /\ pc' = IF Indexable(start) THEN "openings" ELSE "IndexError"
    /\ carved' = grid'
    /\ UNCHANGED <<pushed, pops, writes, bfsHist, dimVars, stack, visited_cells, bfsVars, path, mainVars,
                   entry, first, rng, mode>>

\* Lines 38 (the loop's exit), 62-63 and the evaluation of range(...) at 66.
ForceOpen ==
    /\ pc = "carve"
    /\ stack = <<>>
    /\ grid' = GridOpen(GridOpen(grid, start), end)
    /\ touched' = touched \cup {start, end}
    /\ extra_left' = ExtraCount
    /\ pc' = IF Indexable(start) /\ Indexable(end) THEN "openings"
             ELSE "IndexError"
    /\ carved' = grid'
    /\ UNCHANGED <<pushed, pops, writes, bfsHist, dimVars, stack, visited_cells, bfsVars, path, mainVars,
                   entry, first, rng, mode>>

\* random.randint(a, b): a <= N <= b.
RandInt(a, b) == a..b

\* OpeningDraws with randint(0, n) where the source has randint(0, n - 1).
OpeningDrawsInclusive ==
    RandInt(0, depth) \X RandInt(0, height) \X RandInt(0, width)

\* Lines 67-69: the three draws of one opening.
OpeningDraws ==
    RandInt(0, depth - 1) \X RandInt(0, height - 1) \X RandInt(0, width - 1)

\* Lines 66-70, one iteration.
ExtraOpening ==
    /\ pc = "openings"
    /\ extra_left > 0
    /\ \E c \in Draws("randint", OpeningDraws) :
         /\ grid' = GridOpen(grid, c)
         /\ touched' = touched \cup {c}
         /\ pc' = IF Indexable(c) THEN "openings" ELSE "IndexError"
         /\ Consume("randint", c)
    /\ extra_left' = extra_left - 1
    /\ writes' = writes + 1
    /\ UNCHANGED <<pushed, pops, carved, bfsHist, dimVars, stack, visited_cells, bfsVars, path, mainVars,
                   entry, first, mode>>

\* The return of generate_maze: its locals are gone.
GenReturn ==
    /\ pc = "openings"
    /\ extra_left = 0
    /\ visited_cells' = {}
    /\ pc' = "generated"
    /\ UNCHANGED <<genHist, bfsHist, dimVars, grid, stack, extra_left, bfsVars, path, mainVars,
                   touched, entry, first, rng, mode>>

-----------------------------------------------------------------------------
(* Maze3D.solve_maze                                                       *)

\* Lines 74-76 (and the call of line 197).
SolveStart ==
    /\ pc = "generated"
    /\ queue' = <<start>>
    /\ visited' = {start}
    /\ parent' = (start :> None)
    /\ touched' = touched \cup {start}
    /\ entry' = [grid |-> grid, width |-> width, height |-> height,
                 depth |-> depth, start |-> start, end |-> end]
    /\ calls' = calls + 1
    /\ pc' = "search"
    /\ enq' = <<start>>
    /\ deq' = 0
    /\ UNCHANGED <<genHist, dimVars, grid, genVars, path, attempt, shown, won, first,
                   rng, mode>>

\* path[::-1]
Reversed(s) == [i \in 1..Len(s) |-> s[Len(s) + 1 - i]]

\* Expand without line 104, visited.add.
RECURSIVE ExpandNoMark(_, _, _, _)
ExpandNoMark(g, c, i, s) ==
    IF i > Len(directions) THEN s
    ELSE LET n == Step(c, directions[i], 1)
         IN  IF InBounds(n) /\ g[n] = Open /\ n \notin s.visited
             THEN ExpandNoMark(g, c, i + 1,
                               [visited |-> s.visited,
                                parent  |-> (n :> c) @@ s.parent,
                                queue   |-> Append(s.queue, n)])
             ELSE ExpandNoMark(g, c, i + 1, s)

\* Lines 96-106: the loop over directions[i..], from the cell c just dequeued.
\* s is the record of the three locals.
RECURSIVE Expand(_, _, _, _)
Expand(g, c, i, s) ==
    IF i > Len(directions) THEN s
    ELSE LET n == Step(c, directions[i], 1)
         IN  IF InBounds(n) /\ g[n] = Open /\ n \notin s.visited
             THEN Expand(g, c, i + 1,
                         [visited |-> s.visited \cup {n},
                          parent  |-> (n :> c) @@ s.parent,
                          queue   |-> Append(s.queue, n)])
             ELSE Expand(g, c, i + 1, s)

\* SolveExpand with queue.appendleft in place of queue.append: the frontier
\* becomes a stack and the search depth-first.
SolveExpandLifo ==
    /\ pc = "search"
    /\ queue # <<>>
    /\ Head(queue) # end
    /\ LET s == Expand(grid, Head(queue), 1,
                       [visited |-> visited, parent |-> parent,
                        queue |-> Tail(queue)])
           added == SubSeq(s.queue, Len(queue), Len(s.queue))
       IN  /\ queue' = Reversed(added) \o Tail(queue)
           /\ visited' = s.visited
           /\ parent' = s.parent
           /\ touched' = touched \cup s.visited
           /\ enq' = enq \o SubSeq(s.queue, Len(queue), Len(s.queue))
    /\ deq' = deq + 1
    /\ UNCHANGED <<genHist, dimVars, grid, pc, genVars, path, mainVars, entry, first,
                   rng, mode>>

\* SolveExpand marking the cells it visits in the grid itself.
SolveExpandMarking ==
    /\ pc = "search"
    /\ queue # <<>>
    /\ Head(queue) # end
    /\ LET s == Expand(grid, Head(queue), 1,
                       [visited |-> visited, parent |-> parent,
                        queue |-> Tail(queue)])
       IN  /\ queue' = s.queue
           /\ visited' = s.visited
           /\ parent' = s.parent
           /\ touched' = touched \cup s.visited
           /\ enq' = enq \o SubSeq(s.queue, Len(queue), Len(s.queue))
           /\ grid' = [c \in DOMAIN grid |->
                          IF c \in s.visited \ visited THEN Wall ELSE grid[c]]
    /\ deq' = deq + 1
    /\ UNCHANGED <<genHist, dimVars, pc, genVars, path, mainVars, entry, first,
                   rng, mode>>

\* Lines 84-86 and 96-106: one iteration that does not dequeue self.end.
SolveExpand ==
    /\ pc = "search"
    /\ queue # <<>>
    /\ Head(queue) # end
    /\ LET s == Expand(grid, Head(queue), 1,
                       [visited |-> visited, parent |-> parent,
                        queue |-> Tail(queue)])
       IN  /\ queue' = s.queue
           /\ visited' = s.visited
           /\ parent' = s.parent
           /\ touched' = touched \cup s.visited
           /\ enq' = enq \o SubSeq(s.queue, Len(queue), Len(s.queue))
    /\ deq' = deq + 1
    /\ UNCHANGED <<genHist, dimVars, grid, pc, genVars, path, mainVars, entry, first,
                   rng, mode>>

\* Lines 89-93: the list path, from current back to the start.
RECURSIVE BackPath(_, _)
BackPath(current, par) ==
    IF current = None THEN <<>>
    ELSE <<current>> \o BackPath(par[current], par)

\* Lines 84-94: the iteration that dequeues self.end; the locals are gone.
SolveFound ==
    /\ pc = "search"
    /\ queue # <<>>
    /\ Head(queue) = end
    /\ path' = Reversed(BackPath(end, parent))
    /\ queue' = <<>>
    /\ visited' = {}
    /\ parent' = <<>>
    /\ pc' = "solved"
    /\ deq' = deq + 1
    /\ UNCHANGED <<genHist, enq, dimVars, grid, genVars, mainVars, touched, entry, first,
                   rng, mode>>

\* Lines 84 (the loop's exit) and 108.
SolveFail ==
    /\ pc = "search"
    /\ queue = <<>>
    /\ path' = <<>>
    /\ visited' = {}
    /\ parent' = <<>>
    /\ pc' = "solved"
    /\ UNCHANGED <<genHist, bfsHist, dimVars, grid, genVars, queue, mainVars, touched, entry,
                   first, rng, mode>>

-----------------------------------------------------------------------------
(* main(): the retry loop of lines 181-205 and the call of visualize.      *)

\* MainAttempt with the loop running while attempt <= max_attempts.
MainAttemptOffByOne ==
    /\ pc = "loop"
    /\ attempt <= max_attempts
    /\ attempt' = attempt + 1
    /\ grid' = AllWalls(depth, height, width)
    /\ start' = StartOf
    /\ end' = EndOf(depth, height, width)
    /\ touched' = {}
    /\ path' = <<>>
    /\ pc' = "generate"
    /\ UNCHANGED <<genHist, bfsHist, width, height, depth, genVars, bfsVars, shown, won, calls,
                   entry, first, rng, mode>>

\* Lines 182-183 and 191: the next value of attempt, a new Maze3D, and the
\* call of generate_maze.  The source's Maze3D(width=9, height=9, depth=5)
\* is modelled with the dimensions chosen in Init.
MainAttempt ==
    /\ pc = "loop"
    /\ attempt < max_attempts
    /\ attempt' = attempt + 1
    /\ grid' = AllWalls(depth, height, width)
    /\ start' = StartOf
    /\ end' = EndOf(depth, height, width)
    /\ touched' = {}
    /\ path' = <<>>
    /\ pc' = "generate"
    /\ UNCHANGED <<genHist, bfsHist, width, height, depth, genVars, bfsVars, shown, won, calls,
                   entry, first, rng, mode>>

\* MainBreak without the break of line 202.
MainBreakNoBreak ==
    /\ pc = "solved"
    /\ path # <<>>
    /\ won' = Append(won, [attempt |-> attempt, grid |-> grid, path |-> path])
    /\ pc' = "loop"
    /\ UNCHANGED <<genHist, bfsHist, dimVars, grid, genVars, bfsVars, path, attempt, shown,
                   calls, touched, entry, first, rng, mode>>

\* Lines 199-202: "if path", then break.
MainBreak ==
    /\ pc = "solved"
    /\ path # <<>>
    /\ won' = Append(won, [attempt |-> attempt, grid |-> grid, path |-> path])
    /\ pc' = "visualize"
    /\ UNCHANGED <<genHist, bfsHist, dimVars, grid, genVars, bfsVars, path, attempt, shown,
                   calls, touched, entry, first, rng, mode>>

\* Line 199, "if path" is false: on to the next iteration.
MainRetry ==
    /\ pc = "solved"
    /\ path = <<>>
    /\ pc' = "loop"
    /\ UNCHANGED <<genHist, bfsHist, dimVars, grid, genVars, bfsVars, path, mainVars, touched,
                   entry, first, rng, mode>>

\* Lines 203-205: the loop's else clause.
MainExhausted ==
    /\ pc = "loop"
    /\ attempt >= max_attempts
    /\ pc' = "failed"
    /\ UNCHANGED <<genHist, bfsHist, dimVars, grid, genVars, bfsVars, path, mainVars, touched,
                   entry, first, rng, mode>>

\* Line 217.
MainVisualize ==
    /\ pc = "visualize"
    /\ shown' = [grid |-> grid, path |-> path]
    /\ pc' = "done"
    /\ UNCHANGED <<genHist, bfsHist, dimVars, grid, genVars, bfsVars, path, attempt, won, calls,
                   touched, entry, first, rng, mode>>

-----------------------------------------------------------------------------
(* Specifications.                                                         *)

\* The state every specification starts from, but for the field, pc and mode.
InitLocals ==
    /\ stack = <<>> /\ visited_cells = {} /\ extra_left = 0
    /\ queue = <<>> /\ visited = {} /\ parent = <<>>
    /\ path = <<>> /\ attempt = 0 /\ shown = None
    /\ touched = {} /\ entry = None /\ first = None /\ won = <<>>
    /\ calls = 0 /\ rng = <<>>
    /\ pushed = <<>> /\ pops = 0 /\ carved = None /\ writes = 0
    /\ enq = <<>> /\ deq = 0

\* Maze3D(width, height, depth), lines 17-23.
NewMaze(dims) ==
    /\ depth = dims[1] /\ height = dims[2] /\ width = dims[3]
    /\ grid = AllWalls(dims[1], dims[2], dims[3])
    /\ start = StartOf
    /\ end = EndOf(dims[1], dims[2], dims[3])

GenNext ==
    \/ GenStart \/ CarveStep \/ Backtrack \/ ForceOpen \/ ExtraOpening
    \/ GenReturn

SolveNext ==
    \/ SolveStart \/ SolveExpand \/ SolveFound \/ SolveFail

\* main() on a field of at most MaxMainCells cells.
Init ==
    /\ \E dims \in DimsUpTo(MaxMainCells) : NewMaze(dims)
    /\ pc = "loop"
    /\ mode = "off"
    /\ InitLocals

Next ==
    \/ MainAttempt \/ MainBreak \/ MainRetry \/ MainExhausted \/ MainVisualize
    \/ GenNext \/ SolveNext

Spec == Init /\ [][Next]_vars

\* generate_maze, then solve_maze, on a new field of at most MaxCells cells.
InitGen ==
    /\ \E dims \in DimsUpTo(MaxCells) : NewMaze(dims)
    /\ pc = "generate"
    /\ mode = "off"
    /\ InitLocals

NextGen == GenNext \/ SolveNext

SpecGen == InitGen /\ [][NextGen]_vars

\* solve_maze called a second time on the field it has just searched.
SolveAgain ==
    /\ pc = "solved"
    /\ first = None
    /\ first' = [grid |-> grid, path |-> path]
    /\ pc' = "generated"
    /\ UNCHANGED <<genHist, bfsHist, dimVars, grid, genVars, bfsVars, path, mainVars, touched,
                   entry, rng, mode>>

\* solve_maze, twice, on a field of at most MaxGridCells cells whose cells
\* are assigned in every way.
InitSolve ==
    /\ \E dims \in DimsUpTo(MaxGridCells) :
         /\ depth = dims[1] /\ height = dims[2] /\ width = dims[3]
         /\ grid \in [Coords(dims[1], dims[2], dims[3]) -> {Wall, Open}]
         /\ start = StartOf
         /\ end = EndOf(dims[1], dims[2], dims[3])
    /\ pc = "generated"
    /\ mode = "off"
    /\ InitLocals

NextSolve == SolveNext \/ SolveAgain

SpecSolve == InitSolve /\ [][NextSolve]_vars

\* The second of two runs: a new field of the same dimensions, and the
\* random source made to repeat the draws of the first run.
Rerun ==
    /\ pc = "solved"
    /\ mode = "record"
    /\ first' = [grid |-> grid, path |-> path]
    /\ mode' = "replay"
    /\ grid' = AllWalls(depth, height, width)
    /\ touched' = {}
    /\ pc' = "generate"
    /\ UNCHANGED <<genHist, bfsHist, dimVars, genVars, bfsVars, path, mainVars, entry, rng>>

\* generate_maze and solve_maze, run twice on the same draws.
InitReplay ==
    /\ \E dims \in DimsUpTo(MaxCells) : NewMaze(dims)
    /\ pc = "generate"
    /\ mode = "record"
    /\ InitLocals

NextReplay == GenNext \/ SolveNext \/ Rerun

SpecReplay == InitReplay /\ [][NextReplay]_vars

-----------------------------------------------------------------------------
(* The reference the claims about solve_maze are stated against: the open  *)
(* cells as a graph, two cells adjacent when they differ by 1 in exactly   *)
(* one coordinate, and the hop distance in it, by layers of cells.         *)

Abs(n) == IF n < 0 THEN 0 - n ELSE n

Adjacent(a, b) ==
    Abs(a[1] - b[1]) + Abs(a[2] - b[2]) + Abs(a[3] - b[3]) = 1

OpenCells(g) == {c \in DOMAIN g : g[c] = Open}

RECURSIVE LayerDist(_, _, _, _, _)
LayerDist(g, e, frontier, seen, k) ==
    IF e \in frontier THEN k
    ELSE IF frontier = {} THEN -1
    ELSE LET next == {n \in OpenCells(g) \ seen :
                        \E c \in frontier : Adjacent(c, n)}
         IN  LayerDist(g, e, next, seen \cup next, k + 1)

\* The least number of unit steps from s to e through open cells, -1 when
\* e is not connected to s in the graph of open cells.
RefDist(g, s, e) ==
    IF g[s] = Open THEN LayerDist(g, e, {s}, {s}, 0) ELSE -1

-----------------------------------------------------------------------------
(* Claims about solve_maze, checked under SpecSolve.                       *)

\* C1: on every grid in which end is reachable from start by unit axial
\* steps through Open cells, solve_maze returns a non-empty path whose edge
\* count len(path) - 1 is the least hop distance from start to end.
C1_ShortestPath ==
    (pc = "solved" /\ RefDist(grid, start, end) >= 0)
        => /\ path # <<>>
           /\ Len(path) - 1 = RefDist(grid, start, end)

\* C1's case: a returned path of three or more steps on a grid that also
\* holds a longer way round (an open cell off the path).
C1_Witness ==
    /\ pc = "solved"
    /\ RefDist(grid, start, end) >= 3
    /\ Len(path) = RefDist(grid, start, end) + 1
    /\ \E c \in OpenCells(grid) : \A i \in 1..Len(path) : path[i] # c

\* C2: any non-empty path solve_maze returns, on any grid, starts at start,
\* ends at end, runs over Open cells only, and each consecutive pair of its
\* coordinates differs by exactly 1 in exactly one of z, y, x.
C2_PathValid ==
    (pc = "solved" /\ path # <<>>)
        => /\ path[1] = start
           /\ path[Len(path)] = end
           /\ \A i \in 1..Len(path) : grid[path[i]] = Open
           /\ \A i \in 1..(Len(path) - 1) : Adjacent(path[i], path[i + 1])

\* C3: on every grid in which end is not connected to start in the graph of
\* Open cells, solve_maze returns the empty sequence.
C3_NoPathEmpty ==
    (pc = "solved" /\ RefDist(grid, start, end) < 0) => path = <<>>

\* C9: solve_maze leaves the field as it found it (cells, dimensions, start
\* and end), during the search and after it, whatever it returns; and a
\* second call on the same field returns what the first returned.
C9_FieldUnchanged ==
    /\ (pc \in {"search", "solved"})
         => entry = [grid |-> grid, width |-> width, height |-> height,
                     depth |-> depth, start |-> start, end |-> end]
    /\ (pc = "solved" /\ first # None)
         => (path = first.path /\ grid = first.grid)

\* C9's case: the second call has returned a path of several steps.
C9_Witness ==
    /\ pc = "solved"
    /\ first # None
    /\ calls = 2
    /\ Len(path) >= 3

-----------------------------------------------------------------------------
(* Claims about generate_maze, checked under SpecGen.                      *)

\* The number of even dimensions.
EvenDims ==
    Cardinality({i \in 1..3 : <<depth, height, width>>[i] % 2 = 0})

\* C4: after generate_maze returns, grid[start] and grid[end] are Open, with
\* start = (0, 0, 0) and end = (depth - 1, height - 1, width - 1), for all
\* positive dimensions and all random choices.
C4_StartEndOpen ==
    (pc \in {"generated", "search", "solved"})
        => /\ start = <<0, 0, 0>>
           /\ end = <<depth - 1, height - 1, width - 1>>
           /\ grid[start] = Open
           /\ grid[end] = Open

\* C4's case: generate_maze has returned on a field whose end is off the
\* carve lattice and that got an extra opening.
C4_Witness ==
    /\ pc = "generated"
    /\ EvenDims >= 1
    /\ ExtraCount > 0
    /\ grid[end] = Open

\* C8: every coordinate generate_maze or solve_maze visits, pushes, enqueues
\* or writes (the wall cell of a carve step and the extra openings
\* included) is within 0 <= z < depth, 0 <= y < height, 0 <= x < width.
C8_InBounds ==
    /\ pc # "IndexError"
    /\ touched \subseteq Cells
    /\ \A i \in 1..Len(stack) : stack[i] \in Cells
    /\ visited_cells \subseteq Cells
    /\ \A i \in 1..Len(queue) : queue[i] \in Cells
    /\ visited \subseteq Cells
    /\ DOMAIN parent \subseteq Cells

\* C8's case: a search on a generated field that has carved wall cells
\* (a touched cell with an odd coordinate) and an extra opening.
C8_Witness ==
    /\ pc = "search"
    /\ ExtraCount > 0
    /\ Len(queue) >= 2
    /\ \E c \in touched : c[1] % 2 = 1 \/ c[2] % 2 = 1 \/ c[3] % 2 = 1

\* C10 as amended: whenever at least two of width, height, depth are even,
\* generate_maze can leave end unreachable from start.  When the carve loop
\* is over and start and end are forced open, end is not connected to
\* start; each extra opening has a draw that keeps it so; and solve_maze
\* then returns the empty path.
C10_TwoEvenCanFail ==
    /\ (EvenDims >= 2 /\ pc = "openings" /\ extra_left = ExtraCount)
         => RefDist(grid, start, end) < 0
    /\ (pc = "openings" /\ extra_left > 0 /\ RefDist(grid, start, end) < 0)
         => \E c \in OpeningDraws : RefDist(GridOpen(grid, c), start, end) < 0
    /\ (pc = "solved" /\ RefDist(grid, start, end) < 0) => path = <<>>

\* C10's case: two even dimensions, extra openings made, and the empty path.
C10_Witness ==
    /\ pc = "solved"
    /\ EvenDims >= 2
    /\ ExtraCount > 0
    /\ path = <<>>

\* C10 as stated: whenever at least one of width, height, depth is even,
\* some run of generate_maze ends with solve_maze returning the empty path.
\* With no dimension above 2 the carve lattice is the single cell start and
\* the volume is below 20, so generate_maze makes no draw and has one run:
\* that run is then the one the claim speaks of.
C10_AnyEvenCanFail ==
    (/\ pc = "solved"
     /\ EvenDims >= 1
     /\ depth <= 2 /\ height <= 2 /\ width <= 2)
        => path = <<>>

-----------------------------------------------------------------------------
(* C7, checked under SpecReplay.                                           *)

\* C7: two runs of generate_maze and solve_maze on the same dimensions and
\* the same sequence of random draws end with the same grid and return the
\* same path: the second run asks for the draws the first one made, in the
\* same order, uses them all, and ends as the first did.
C7_Deterministic ==
    /\ (mode = "replay" /\ pc = "carve" /\ stack # <<>>
            /\ Neighbors(stack[Len(stack)], visited_cells) # <<>>)
         => /\ rng # <<>>
            /\ Head(rng).kind = "choice"
            /\ Head(rng).v <= Len(Neighbors(stack[Len(stack)], visited_cells))
    /\ (mode = "replay" /\ pc = "openings" /\ extra_left > 0)
         => /\ rng # <<>>
            /\ Head(rng).kind = "randint"
    /\ (mode = "replay" /\ pc \in {"generated", "search", "solved"})
         => (rng = <<>> /\ grid = first.grid)
    /\ (mode = "replay" /\ pc = "solved") => path = first.path

\* C7's case: the second run has ended, after carve choices and an extra
\* opening, with a path of several steps.
C7_Witness ==
    /\ mode = "replay"
    /\ pc = "solved"
    /\ ExtraCount > 0
    /\ Len(path) >= 5

-----------------------------------------------------------------------------
(* Claims about main(), checked under Spec.                                *)

\* C5: main's loop never makes more than max_attempts attempts; when every
\* attempt's solve_maze returned the empty path it ends after exactly
\* max_attempts attempts, in the failure outcome, without raising and
\* without a call of visualize.
C5_BoundedRetries ==
    /\ attempt <= max_attempts
    /\ calls <= max_attempts
    /\ pc # "IndexError"
    /\ (pc = "failed")
         => /\ attempt = max_attempts
            /\ calls = max_attempts
            /\ won = <<>>
            /\ path = <<>>
            /\ shown = None

\* C5's case: the failure outcome, on dimensions whose attempts could have
\* succeeded (there are extra openings).
C5_Witness ==
    /\ pc = "failed"
    /\ calls = max_attempts
    /\ ExtraCount > 0

\* C6: the attempts are made in the order 1..max_attempts, each on a new
\* all-Blocked field; the loop stops at the first attempt whose path is not
\* empty, and visualize gets the grid and the path of that attempt.
C6_FirstSuccessShown ==
    /\ (pc = "generate")
         => /\ grid = AllWalls(depth, height, width)
            /\ attempt \in 1..max_attempts
            /\ calls = attempt - 1
            /\ won = <<>>
    /\ Len(won) <= 1
    /\ (won # <<>>)
         => /\ pc \in {"visualize", "done"}
            /\ won[1].attempt = attempt
            /\ calls = attempt
            /\ won[1].path # <<>>
            /\ won[1].grid = entry.grid
            /\ grid = won[1].grid
    /\ (shown # None)
         => /\ pc = "done"
            /\ won # <<>>
            /\ shown.grid = won[1].grid
            /\ shown.path = won[1].path
    /\ (pc = "done") => shown # None

\* C6's case: visualize called after an attempt that followed failed ones.
C6_Witness ==
    /\ pc = "done"
    /\ shown # None
    /\ attempt >= 2

-----------------------------------------------------------------------------
(* Claims about the carve loop of generate_maze, checked under SpecGen.    *)

\* The cells connected to s in the graph of open cells of g.
RECURSIVE Component(_, _, _)
Component(g, frontier, seen) ==
    IF frontier = {} THEN seen
    ELSE LET next == {n \in OpenCells(g) \ seen :
                        \E c \in frontier : Adjacent(c, n)}
         IN  Component(g, next, seen \cup next)

\* The ordered pairs of adjacent open cells: two for each edge.
OpenPairs(g) ==
    {p \in OpenCells(g) \X OpenCells(g) : Adjacent(p[1], p[2])}

\* The open cells of g are a tree: connected, with one edge less than cells.
IsTree(g, s) ==
    /\ g[s] = Open
    /\ Component(g, {s}, {s}) = OpenCells(g)
    /\ Cardinality(OpenPairs(g)) = 2 * (Cardinality(OpenCells(g)) - 1)

\* C11: when the backtracking loop has finished, before start and end are
\* forced open and the extra openings made, the Open cells form a tree
\* under unit 6-adjacency (connected and acyclic, so one simple path joins
\* any two Open cells), for all dimensions and all random choices.
C11_CarvedTree ==
    (pc = "carve" /\ stack = <<>>) => IsTree(grid, start)

\* C11's case: the loop has finished on a 2 x 2 x 2 lattice (15 open cells)
\* with a carve that branches.
C11_Witness ==
    /\ pc = "carve"
    /\ stack = <<>>
    /\ Cardinality(OpenCells(grid)) >= 15
    /\ \E c \in OpenCells(grid) :
         Cardinality({n \in OpenCells(grid) : Adjacent(c, n)}) >= 3

\* The cells of the carve lattice: in bounds, all three coordinates even.
Lattice == {c \in Cells : c[1] % 2 = 0 /\ c[2] % 2 = 0 /\ c[3] % 2 = 0}

\* The number of times a cell was put on the stack, over all cells.
RECURSIVE SumOver(_, _)
SumOver(f, S) ==
    IF S = {} THEN 0
    ELSE LET c == CHOOSE x \in S : TRUE
         IN  f[c] + SumOver(f, S \ {c})

\* The iterations of the carve loop so far: the pushes of line 57 (all but
\* the push of start at line 28) and the pops of line 59.
Iterations == (SumOver(pushed, DOMAIN pushed) - 1) + pops

\* C12: the backtracking loop ends with an empty stack without raising;
\* no cell is put on the stack twice; the loop never runs more than
\* 2n - 1 iterations, n the number of lattice cells, and is not over before;
\* and when it ends every lattice cell has been marked visited, pushed once
\* and opened, after n - 1 pushes and n pops.
C12_CarveTerminates ==
    /\ pc # "IndexError"
    /\ (pc = "carve")
         => /\ \A c \in DOMAIN pushed : pushed[c] = 1
            /\ DOMAIN pushed = visited_cells
            /\ visited_cells \subseteq Lattice
            /\ Iterations <= 2 * Cardinality(Lattice) - 1
            /\ (stack # <<>>) => Iterations < 2 * Cardinality(Lattice) - 1
    /\ (pc = "carve" /\ stack = <<>>)
         => /\ visited_cells = Lattice
            /\ \A c \in Lattice : pushed[c] = 1 /\ grid[c] = Open
            /\ SumOver(pushed, DOMAIN pushed) - 1 = Cardinality(Lattice) - 1
            /\ pops = Cardinality(Lattice)
            /\ Iterations = 2 * Cardinality(Lattice) - 1

\* C12's case: the loop has ended on a lattice of eight cells.
C12_Witness ==
    /\ pc = "carve"
    /\ stack = <<>>
    /\ Cardinality(Lattice) = 8
    /\ pops = 8

\* The cell midway between a and b.
Midway(a, b) ==
    <<(a[1] + b[1]) \div 2, (a[2] + b[2]) \div 2, (a[3] + b[3]) \div 2>>

\* a and b differ by exactly 2 along exactly one axis.
LatticeStep(a, b) ==
    /\ Cardinality({i \in 1..3 : a[i] # b[i]}) = 1
    /\ Abs(a[1] - b[1]) + Abs(a[2] - b[2]) + Abs(a[3] - b[3]) = 2

\* C15: at every iteration of the backtracking loop the stack is a
\* duplicate-free path in the lattice from start: its bottom entry is
\* start, consecutive entries differ by exactly 2 along exactly one axis
\* with the wall cell between them Open, and every entry is in
\* visited_cells and Open.
C15_StackIsPath ==
    (pc = "carve" /\ stack # <<>>)
        => /\ stack[1] = start
           /\ \A i, j \in 1..Len(stack) : i # j => stack[i] # stack[j]
           /\ \A i \in 1..(Len(stack) - 1) :
                /\ LatticeStep(stack[i], stack[i + 1])
                /\ grid[Midway(stack[i], stack[i + 1])] = Open
           /\ \A i \in 1..Len(stack) :
                stack[i] \in visited_cells /\ grid[stack[i]] = Open

\* C15's case: a stack of four or more entries that turns a corner, after
\* a pop.
C15_Witness ==
    /\ pc = "carve"
    /\ Len(stack) >= 4
    /\ pops >= 1
    /\ \E i \in 1..(Len(stack) - 2) :
         Midway(stack[i], stack[i + 2]) # stack[i + 1]

-----------------------------------------------------------------------------
(* C13, checked under Spec.                                                *)

\* C13: when width, height and depth are all odd, every run of
\* generate_maze, whatever the carve choices and the extra openings, leaves
\* end reachable from start through Open cells, so solve_maze returns a
\* non-empty path; main's first attempt then succeeds, and neither a second
\* attempt nor the failure branch is reached.
C13_OddAlwaysSolvable ==
    (EvenDims = 0)
        => /\ (pc \in {"openings", "generated", "search", "solved",
                        "visualize", "done"})
                => RefDist(grid, start, end) >= 0
           /\ (pc \in {"solved", "visualize", "done"}) => path # <<>>
           /\ attempt <= 1
           /\ pc \notin {"failed", "IndexError"}

\* C13's case: main has shown the maze of its first attempt, on odd
\* dimensions with branching carve choices and an extra opening.
C13_Witness ==
    /\ EvenDims = 0
    /\ depth > 1 /\ height > 1
    /\ ExtraCount > 0
    /\ pc = "done"
    /\ attempt = 1

-----------------------------------------------------------------------------
(* C14, checked under SpecOpenings: generate_maze on the fields of         *)
(* SpecGen and on long fields of one or two rows, whose volume reaches     *)
(* the 100 cells of five openings and the 120 cells where min(5, ...)      *)
(* cuts the count.                                                         *)

LongDims ==
    UNION {{<<n, 1, 1>>, <<1, n, 1>>, <<1, 1, n>>} : n \in 1..MaxLine}
        \cup {<<1, 2, n>> : n \in 1..MaxSlab}

InitOpenings ==
    /\ \E dims \in DimsUpTo(MaxCells) \cup LongDims : NewMaze(dims)
    /\ pc = "generate"
    /\ mode = "off"
    /\ InitLocals

SpecOpenings == InitOpenings /\ [][GenNext]_vars

\* The number of openings the claim gives: floor(volume / 20), at most 5.
OpeningsClaimed ==
    IF width * height * depth >= 100 THEN 5
    ELSE (width * height * depth) \div 20

\* C14: the post-processing of generate_maze makes exactly
\* min(5, floor(width * height * depth / 20)) opening writes (none below 20
\* cells); each sets one cell Open and changes no other, so no Open cell
\* turns Blocked and the Open cells grow by at most the number of writes.
C14_OpeningWrites ==
    /\ (pc = "openings")
         => writes + extra_left = OpeningsClaimed
    /\ (pc = "generated") => writes = OpeningsClaimed
    /\ (pc \in {"openings", "generated"})
         => /\ \A c \in Cells : carved[c] = Open => grid[c] = Open
            /\ Cardinality({c \in Cells : grid[c] # carved[c]}) <= writes
            /\ Cardinality(OpenCells(grid))
                   <= Cardinality(OpenCells(carved)) + writes
            /\ \A c \in Cells : grid[c] \in {Open, Wall}
    /\ (width * height * depth < 20) => writes = 0

\* C14's case: three openings made, each on a cell that was a wall.
C14_Witness ==
    /\ pc = "generated"
    /\ writes = 3
    /\ Cardinality(OpenCells(grid)) = Cardinality(OpenCells(carved)) + 3

\* C14's case of the cut: five openings on a field of 120 cells.
C14_WitnessCut ==
    /\ pc = "generated"
    /\ width * height * depth = 120
    /\ writes = 5

-----------------------------------------------------------------------------
(* C16, checked under SpecSolve.                                           *)

\* The place of c among the cells put on the queue.
EnqueuedAt(c) == CHOOSE i \in 1..Len(enq) : enq[i] = c

\* Following parent links from c reaches start within k steps.
RECURSIVE ClimbsToStart(_, _)
ClimbsToStart(c, k) ==
    IF c = start THEN TRUE
    ELSE IF k = 0 \/ c \notin DOMAIN parent THEN FALSE
    ELSE ClimbsToStart(parent[c], k - 1)

\* C16: at every step of the search the visited set is the key set of the
\* parent map; each coordinate is put on the queue at most once, so there
\* are at most width * height * depth dequeues; every visited cell but
\* start has for parent a visited, unit-adjacent cell that was put on the
\* queue before it; and the parent links from any visited cell lead to
\* start in finitely many steps.
C16_SearchInvariant ==
    (pc = "search")
        => /\ visited = DOMAIN parent
           /\ \A i, j \in 1..Len(enq) : i # j => enq[i] # enq[j]
           /\ {enq[i] : i \in 1..Len(enq)} = visited
           /\ queue = SubSeq(enq, deq + 1, Len(enq))
           /\ deq <= Len(enq)
           /\ Len(enq) <= width * height * depth
           /\ parent[start] = None
           /\ \A c \in visited \ {start} :
                /\ parent[c] \in visited
                /\ Adjacent(parent[c], c)
                /\ EnqueuedAt(parent[c]) < EnqueuedAt(c)
           /\ \A c \in visited : ClimbsToStart(c, Cardinality(visited) - 1)

\* C16's case: a search that has dequeued several cells and holds a cell
\* three parent links away from start.
C16_Witness ==
    /\ pc = "search"
    /\ deq >= 3
    /\ Len(queue) >= 2
    /\ \E c \in visited : ~ClimbsToStart(c, 2)

====
